---------------------------- MODULE Spec2Model ----------------------------
(***************************************************************************)
(* binomial_options.py: a Streamlit script that prices a European option   *)
(* on a Cox-Ross-Rubinstein binomial tree (getSmatrix1, CRR_option_value), *)
(* computes the Black-Scholes reference price (bs) and samples the tree    *)
(* price at the step counts 10, 20, ... for a convergence plot.            *)
(*                                                                         *)
(* The model is the script as a state machine: one action per statement    *)
(* group, one step per loop iteration of the two lattice loops.            *)
(***************************************************************************)
EXTENDS Integers, Sequences, FiniteSets, TLC

VARIABLES
  pc,             \* where the script is: "idle", "L<line>", "gs_<line>", "crr_<line>", "done", "raised"
  inp,            \* the sidebar widgets' values (lines 63-71)
  gs,             \* the frame of the running (or last) call of getSmatrix1
  crr,            \* the frame of the running (or last) call of CRR_option_value
  ref,            \* the locals of the last call of bs
  binomial_tree,  \* line 76
  option_value,   \* line 77
  option_tree,    \* line 77
  steps,          \* line 95
  exact_value,    \* line 98
  CRR_values,     \* line 101, one element per finished call
  reads,          \* history: the lattice cells the running call of CRR_option_value has read
  writes          \* history: how often backward induction has written each cell of V

vars == <<pc, inp, gs, crr, ref, binomial_tree, option_value, option_tree, steps,
          exact_value, CRR_values, reads, writes>>

(***************************************************************************)
(* Floating-point numbers.  The program computes in IEEE-754 binary64; the *)
(* model keeps the format (sign, significand, binary exponent, round to    *)
(* nearest, ties to even, NaN) and narrows the significand to Precision    *)
(* bits.  A number is m * 2^e, normalised so that m = 0 /\ e = 0 or        *)
(* 2^(Precision-1) <= |m| < 2^Precision.  The exponent is not bounded: no  *)
(* value of the program comes near binary64's overflow or underflow.       *)
(* +, -, *, /, sqrt, pow and the conversions round correctly, as binary64  *)
(* does; exp, log and norm.cdf are summed from their series in the same    *)
(* arithmetic and are accurate to a few units in the last place.           *)
(***************************************************************************)
Precision == 12

Abs(n) == IF n < 0 THEN -n ELSE n

Sign(n) == IF n < 0 THEN -1 ELSE IF n > 0 THEN 1 ELSE 0

RECURSIVE BitLen(_)
BitLen(n) == IF n = 0 THEN 0 ELSE 1 + BitLen(n \div 2)

Zero == [nan |-> FALSE, m |-> 0, e |-> 0]

NaN == [nan |-> TRUE, m |-> 0, e |-> 0]

\* n * 2^e rounded to Precision bits, ties to even; sticky says that the exact
\* value lies strictly above |n| * 2^e in magnitude (bits lost by the caller).
Round(n, e, sticky) ==
  LET a == Abs(n)
      b == BitLen(a)
      s == b - Precision
      qd == a \div 2^s
      rem == a % 2^s
      half == 2^(s - 1)
      up == rem > half \/ (rem = half /\ (sticky \/ qd % 2 = 1))
      q1 == IF up THEN qd + 1 ELSE qd
  IN  IF a = 0 THEN Zero
      ELSE IF s <= 0
        THEN [nan |-> FALSE, m |-> Sign(n) * a * 2^(-s), e |-> e + s]
      ELSE IF q1 = 2^Precision
        THEN [nan |-> FALSE, m |-> Sign(n) * 2^(Precision - 1), e |-> e + s + 1]
      ELSE [nan |-> FALSE, m |-> Sign(n) * q1, e |-> e + s]

\* An integer as the nearest float.
FInt(n) == Round(n, 0, FALSE)

FNeg(x) == [x EXCEPT !.m = -x.m]

FAbs(x) == [x EXCEPT !.m = Abs(x.m)]

FMul(x, y) ==
  IF x.nan \/ y.nan THEN NaN ELSE Round(x.m * y.m, x.e + y.e, FALSE)

FAdd(x, y) ==
  IF x.nan \/ y.nan THEN NaN
  ELSE IF x.m = 0 THEN y
  ELSE IF y.m = 0 THEN x
  ELSE LET hi == IF x.e >= y.e THEN x ELSE y
           lo == IF x.e >= y.e THEN y ELSE x
           sh == hi.e - lo.e
       IN  IF sh > Precision + 1 THEN hi
           ELSE Round(hi.m * 2^sh + lo.m, lo.e, FALSE)

FSub(x, y) == FAdd(x, FNeg(y))

\* x / y for y # 0 (the callers decide what a zero divisor does).
FDiv(x, y) ==
  IF x.nan \/ y.nan THEN NaN
  ELSE LET n == Abs(x.m) * 2^(Precision + 2)
           d == Abs(y.m)
       IN  Round(Sign(x.m) * Sign(y.m) * (n \div d),
                 x.e - y.e - (Precision + 2), n % d # 0)

\* The decimal literal n/d (n, d integers, d > 0), correctly rounded.
FDec(n, d) ==
  LET k == Precision + 3 + BitLen(d) - BitLen(Abs(n))
      a == Abs(n) * 2^k
  IN  Round(Sign(n) * (a \div d), -k, a % d # 0)

One == FInt(1)

FLt(x, y) == ~x.nan /\ ~y.nan /\ FSub(x, y).m < 0

FLe(x, y) == ~x.nan /\ ~y.nan /\ FSub(x, y).m <= 0

\* np.maximum: NaN if either operand is NaN.
FMax(x, y) == IF x.nan \/ y.nan THEN NaN ELSE IF FLt(x, y) THEN y ELSE x

RECURSIVE ISqrt(_, _, _)
ISqrt(n, lo, hi) ==
  IF lo >= hi THEN lo
  ELSE LET mid == (lo + hi + 1) \div 2
       IN  IF mid * mid <= n THEN ISqrt(n, mid, hi) ELSE ISqrt(n, lo, mid - 1)

\* sqrt, correctly rounded as IEEE requires; NaN below zero (np.sqrt).
FSqrt(x) ==
  IF x.nan \/ x.m < 0 THEN NaN
  ELSE IF x.m = 0 THEN Zero
  ELSE LET k == IF (x.e - (Precision + 2)) % 2 = 0 THEN Precision + 2
                                                  ELSE Precision + 3
           n == x.m * 2^k
           rt == ISqrt(n, 0, 2^(Precision + 2))
       IN  Round(rt, (x.e - k) \div 2, rt * rt # n)

\* exp by its Maclaurin series (Horner form) on |x| <= 1/2, and
\* exp(x) = exp(x/2)^2 above.
RECURSIVE ExpSeries(_, _)
ExpSeries(x, k) ==
  IF k > 12 THEN One
  ELSE FAdd(One, FMul(FDiv(x, FInt(k)), ExpSeries(x, k + 1)))

RECURSIVE FExp(_)
FExp(x) ==
  IF x.nan THEN NaN
  ELSE IF FLt(FDec(1, 2), FAbs(x))
    THEN LET h == FExp(FDiv(x, FInt(2))) IN FMul(h, h)
  ELSE ExpSeries(x, 1)

\* log: x = y * 2^k with y in [1, 2); ln y = 2 atanh((y-1)/(y+1)) by its
\* series.  NaN below zero (np.log); log(0) is not needed by the model's inputs.
RECURSIVE AtanhSeries(_, _, _)
AtanhSeries(z, zz, k) ==
  IF k > 25 THEN Zero
  ELSE FAdd(FDiv(z, FInt(k)), AtanhSeries(FMul(z, zz), zz, k + 2))

Ln2 == Round(744261118, -30, FALSE)

FLog(x) ==
  IF x.nan \/ x.m <= 0 THEN NaN
  ELSE LET k == x.e + Precision - 1
           y == [x EXCEPT !.e = 1 - Precision]
           z == FDiv(FSub(y, One), FAdd(y, One))
       IN  FAdd(FMul(FInt(k), Ln2),
                FMul(FInt(2), AtanhSeries(z, FMul(z, z), 1)))

\* norm.cdf by the Maclaurin series of the error function:
\* Phi(x) = 1/2 + (1/sqrt(2 pi)) * sum_n x * (-x^2/2)^n / (n! (2n+1)).
RECURSIVE CdfSeries(_, _, _)
CdfSeries(term, h, n) ==
  IF n > 24 THEN Zero
  ELSE FAdd(FDiv(term, FInt(2 * n + 1)),
            CdfSeries(FDiv(FMul(term, h), FInt(n + 1)), h, n + 1))

InvSqrt2Pi == Round(428361012, -30, FALSE)

FCdf(x) ==
  IF x.nan THEN NaN
  ELSE FAdd(FDec(1, 2),
            FMul(InvSqrt2Pi,
                 CdfSeries(x, FNeg(FDiv(FMul(x, x), FInt(2))), 0)))

\* pow is computed with a significand of 2 * Precision bits and rounded once,
\* as the library's pow is accurate to the last place.  WMul is the product
\* of two such numbers <<m, e>> (m > 0), cut to 2 * Precision bits.
WMul(x, y) ==
  LET R == 2^Precision
      a1 == x[1] \div R
      a0 == x[1] % R
      b1 == y[1] \div R
      b0 == y[1] % R
      hi == a1 * b1 + (a1 * b0 + a0 * b1 + (a0 * b0) \div R) \div R
  IN  IF hi < 2^(2 * Precision - 1)
        THEN <<2 * hi, x[2] + y[2] + 2 * Precision - 1>>
        ELSE <<hi, x[2] + y[2] + 2 * Precision>>

RECURSIVE WPow(_, _)
WPow(x, n) ==
  IF n = 1 THEN x
  ELSE IF n % 2 = 0 THEN LET h == WPow(x, n \div 2) IN WMul(h, h)
  ELSE WMul(x, WPow(x, n - 1))

\* x ** n for an integer n >= 0 (binary64 pow); pow(x, 0) = 1 even for NaN.
FPow(x, n) ==
  IF n = 0 THEN One
  ELSE IF x.nan THEN NaN
  ELSE IF x.m = 0 THEN Zero
  ELSE LET w == WPow(<<Abs(x.m) * 2^Precision, x.e - Precision>>, n)
           sg == IF x.m < 0 /\ n % 2 = 1 THEN -1 ELSE 1
       IN  Round(sg * w[1], w[2], FALSE)

(***************************************************************************)
(* Bounds of the model and the values the widgets are given.               *)
(***************************************************************************)
MaxM == 3

\* Step counts entered in the "Number of Steps" widget (min_value = 1):
\* small ones, and 10 and 20, which the convergence sampler samples too.
Ms == (1..MaxM) \cup {10, 20}

\* The widgets' defaults (lines 63-67).
Default ==
  [S0 |-> FInt(36), K |-> FInt(40), T |-> FInt(1), r |-> FDec(6, 100),
   sigma |-> FDec(2, 10)]

\* The values typed into the number inputs: the defaults, and the defaults
\* with one field changed.  No widget but M has a min_value, so the changed
\* field may be zero or negative.
Params ==
  { Default,
    [Default EXCEPT !.K = FInt(30)],
    [Default EXCEPT !.T = FDec(1, 2)],
    [Default EXCEPT !.r = FDec(5, 10)],
    [Default EXCEPT !.r = FDec(-2, 100)],
    [Default EXCEPT !.T = Zero],
    [Default EXCEPT !.sigma = Zero],
    [Default EXCEPT !.sigma = FDec(-2, 10)],
    [Default EXCEPT !.S0 = FInt(-36)] }

Inputs ==
  { [S0 |-> p.S0, K |-> p.K, T |-> p.T, r |-> p.r, sigma |-> p.sigma,
     M |-> m, option_type |-> o] : p \in Params, m \in Ms, o \in {"C", "P"} }

(***************************************************************************)
(* Lattices: numpy arrays of shape (M+1, M+1), indexed [j, t].             *)
(***************************************************************************)
Cells(M) == (0..M) \X (0..M)

NoLattice == [cell \in {} |-> Zero]

\* zeros, wrong: the array is a reused buffer that still holds the last value
\* lattice handed to the script (np.empty in place of np.zeros).
zerosStale(M) ==
  [cell \in Cells(M) |->
     IF cell \in DOMAIN option_tree THEN option_tree[cell] ELSE Zero]

\* np.zeros((M + 1, M + 1))
zeros(M) == [cell \in Cells(M) |-> Zero]

\* range, wrong: stop is taken as included.
rangeInclusive(start, stop, step) ==
  IF stop < start THEN <<>>
  ELSE [i \in 1..((stop - start) \div step + 1) |-> start + (i - 1) * step]

\* range(start, stop, step) for step > 0, as a sequence.
range(start, stop, step) ==
  IF stop <= start THEN <<>>
  ELSE [i \in 1..((stop - start + step - 1) \div step) |-> start + (i - 1) * step]

max(x, y) == IF x >= y THEN x ELSE y

\* bs, wrong: put from its own closed formula K e^(-rT) Phi(-d2) - S0 Phi(-d1)
\* instead of from the call value.
bsSymmetric(S0, K, T, r, sigma) ==
  LET d1 == FDiv(FAdd(FLog(FDiv(S0, K)),
                      FMul(FAdd(r, FMul(FDec(5, 10), FMul(sigma, sigma))), T)),
                 FMul(sigma, FSqrt(T)))
      d2 == FSub(d1, FMul(sigma, FSqrt(T)))
      disc == FMul(K, FExp(FMul(FNeg(r), T)))
      cc == FSub(FMul(S0, FCdf(d1)), FMul(disc, FCdf(d2)))
      p == FSub(FMul(disc, FCdf(FNeg(d2))), FMul(S0, FCdf(FNeg(d1))))
  IN  [d1 |-> d1, d2 |-> d2, c |-> cc, p |-> p]

(***************************************************************************)
(* bs (lines 9-14).  Line 98 is reached only after CRR_option_value has    *)
(* returned, and then sigma * sqrt(T) # 0 (line 36 raises otherwise).      *)
(***************************************************************************)
bs(S0, K, T, r, sigma) ==
  LET d1 == FDiv(FAdd(FLog(FDiv(S0, K)),
                      FMul(FAdd(r, FMul(FDec(5, 10), FMul(sigma, sigma))), T)),
                 FMul(sigma, FSqrt(T)))
      d2 == FSub(d1, FMul(sigma, FSqrt(T)))
      disc == FMul(K, FExp(FMul(FNeg(r), T)))
      cc == FSub(FMul(S0, FCdf(d1)), FMul(disc, FCdf(d2)))
      p == FSub(FAdd(cc, disc), S0)
  IN  [d1 |-> d1, d2 |-> d2, c |-> cc, p |-> p]

\* Before the first statement of a run: nothing is bound yet.
NoInput ==
  [S0 |-> Zero, K |-> Zero, T |-> Zero, r |-> Zero, sigma |-> Zero, M |-> 0,
   option_type |-> "P"]

NoGsFrame ==
  [S0 |-> Zero, sigma |-> Zero, T |-> Zero, M |-> 0, dt |-> Zero, u |-> Zero,
   d |-> Zero, S |-> NoLattice, t |-> 0, j |-> 0, ret |-> "none"]

NoCrrFrame ==
  [S0 |-> Zero, K |-> Zero, T |-> Zero, r |-> Zero, sigma |-> Zero,
   option_type |-> "P", M |-> 0, dt |-> Zero, df |-> Zero, u |-> Zero,
   d |-> Zero, q |-> Zero, S |-> NoLattice, V |-> NoLattice, t |-> 0, j |-> 0,
   ret |-> "none"]

NoBsLocals == [d1 |-> Zero, d2 |-> Zero, c |-> Zero, p |-> Zero]

NoWrites == [cell \in {} |-> 0]

Init ==
  /\ pc = "idle"
  /\ inp = NoInput
  /\ gs = NoGsFrame
  /\ crr = NoCrrFrame
  /\ ref = NoBsLocals
  /\ binomial_tree = NoLattice
  /\ option_value = Zero
  /\ option_tree = NoLattice
  /\ steps = <<>>
  /\ exact_value = Zero
  /\ CRR_values = <<>>
  /\ reads = {}
  /\ writes = NoWrites

(***************************************************************************)
(* The script (lines 61-115).                                              *)
(***************************************************************************)
\* Lines 63-74: the user has set the widgets and presses the button.
Click ==
  /\ pc = "idle"
  /\ \E i \in Inputs : inp' = i
  /\ pc' = "L76"
  /\ UNCHANGED <<gs, crr, ref, binomial_tree, option_value, option_tree, steps,
                 exact_value, CRR_values, reads, writes>>

\* The call of getSmatrix1(S0, sigma, T, M) from `from', binding its parameters.
CallGetSmatrix1(S0, sigma, T, M, from) ==
  /\ gs' = [S0 |-> S0, sigma |-> sigma, T |-> T, M |-> M, dt |-> Zero,
           u |-> Zero, d |-> Zero, S |-> NoLattice, t |-> 0, j |-> 0,
           ret |-> from]
  /\ pc' = "gs_19"

\* The call of CRR_option_value(S0, K, T, r, sigma, option_type, M) from `from'.
CallCRR(M, from) ==
  /\ crr' = [S0 |-> inp.S0, K |-> inp.K, T |-> inp.T, r |-> inp.r,
           sigma |-> inp.sigma, option_type |-> inp.option_type, M |-> M,
           dt |-> Zero, df |-> Zero, u |-> Zero, d |-> Zero, q |-> Zero,
           S |-> NoLattice, V |-> NoLattice, t |-> 0, j |-> 0, ret |-> from]
  /\ reads' = {}
  /\ writes' = NoWrites
  /\ pc' = "crr_32"

\* Line 76.
MainCallTree ==
  /\ pc = "L76"
  /\ CallGetSmatrix1(inp.S0, inp.sigma, inp.T, inp.M, "L76")
  /\ UNCHANGED <<inp, crr, ref, binomial_tree, option_value, option_tree, steps,
                 exact_value, CRR_values, reads, writes>>

\* Line 77.
MainCallCRR ==
  /\ pc = "L77"
  /\ CallCRR(inp.M, "L77")
  /\ UNCHANGED <<inp, gs, ref, binomial_tree, option_value, option_tree, steps,
                 exact_value, CRR_values>>

\* Lines 80-95: the results are displayed, and steps is set.
Display ==
  /\ pc = "L80"
  /\ LET max_steps == max(10, inp.M)
     IN  steps' = range(10, max_steps + 10, 10)
  /\ pc' = "L98"
  /\ UNCHANGED <<inp, gs, crr, ref, binomial_tree, option_value, option_tree,
                 exact_value, CRR_values, reads, writes>>

\* Line 98.  S0 / K is a division of Python floats: it raises for K = 0.
CallBS ==
  /\ pc = "L98"
  /\ IF inp.K.m = 0 /\ ~inp.K.nan
       THEN /\ pc' = "raised"
            /\ UNCHANGED <<ref, exact_value>>
       ELSE /\ ref' = bs(inp.S0, inp.K, inp.T, inp.r, inp.sigma)
            /\ exact_value' = IF inp.option_type = "C" THEN ref'.c ELSE ref'.p
            /\ pc' = "L101"
  /\ UNCHANGED <<inp, gs, crr, binomial_tree, option_value, option_tree, steps,
                 CRR_values, reads, writes>>

\* Line 101: the list comprehension calls CRR_option_value for the next m.
SampleCall ==
  /\ pc = "L101"
  /\ Len(CRR_values) < Len(steps)
  /\ CallCRR(steps[Len(CRR_values) + 1], "L101")
  /\ UNCHANGED <<inp, gs, ref, binomial_tree, option_value, option_tree, steps,
                 exact_value, CRR_values>>

\* Lines 104-115: the comprehension is exhausted; the plot is drawn.
Plot ==
  /\ pc = "L101"
  /\ Len(CRR_values) = Len(steps)
  /\ pc' = "done"
  /\ UNCHANGED <<inp, gs, crr, ref, binomial_tree, option_value, option_tree, steps,
                 exact_value, CRR_values, reads, writes>>

\* Streamlit runs the script from the top on the next interaction: nothing
\* of a run outlives it.
Rerun ==
  /\ pc \in {"done", "raised"}
  /\ pc' = "idle"
  /\ inp' = NoInput
  /\ gs' = NoGsFrame
  /\ crr' = NoCrrFrame
  /\ ref' = NoBsLocals
  /\ binomial_tree' = NoLattice
  /\ option_value' = Zero
  /\ option_tree' = NoLattice
  /\ steps' = <<>>
  /\ exact_value' = Zero
  /\ CRR_values' = <<>>
  /\ reads' = {}
  /\ writes' = NoWrites

(***************************************************************************)
(* getSmatrix1 (lines 18-27).                                              *)
(***************************************************************************)
\* Lines 19-23: dt, u, d, the zero matrix, and row 0 pre-filled with S0.
GsInit ==
  /\ pc = "gs_19"
  /\ LET dt == FDiv(gs.T, FInt(gs.M))
         u == FExp(FMul(gs.sigma, FSqrt(dt)))
         d == FDiv(One, u)
         S == [cell \in Cells(gs.M) |->
                 IF cell[1] = 0 THEN gs.S0 ELSE zeros(gs.M)[cell]]
     IN  gs' = [gs EXCEPT !.dt = dt, !.u = u, !.d = d, !.S = S, !.t = 0, !.j = 0]
  /\ pc' = "gs_26"
  /\ UNCHANGED <<inp, crr, ref, binomial_tree, option_value, option_tree, steps,
                 exact_value, CRR_values, reads, writes>>

\* price, wrong: the up-factor raised to t instead of t - j.
priceUpT(S0, u, d, j, t) == FMul(FMul(S0, FPow(u, t)), FPow(d, j))

\* The price written at node (j, t), line 26.
price(S0, u, d, j, t) == FMul(FMul(S0, FPow(u, t - j)), FPow(d, j))

\* Lines 24-26: one iteration of the inner loop, for (gs.t, gs.j).
GsCell ==
  /\ pc = "gs_26"
  /\ gs' = [gs EXCEPT
             !.S = [gs.S EXCEPT ![<<gs.j, gs.t>>] = price(gs.S0, gs.u, gs.d, gs.j, gs.t)],
             !.j = IF gs.j < gs.t THEN gs.j + 1 ELSE 0,
             !.t = IF gs.j < gs.t THEN gs.t ELSE gs.t + 1]
  /\ pc' = IF gs.j = gs.t /\ gs.t = gs.M THEN "gs_27" ELSE "gs_26"
  /\ UNCHANGED <<inp, crr, ref, binomial_tree, option_value, option_tree, steps,
                 exact_value, CRR_values, reads, writes>>

\* Line 27: return S to the caller (line 76 or line 39).
GsReturn ==
  /\ pc = "gs_27"
  /\ IF gs.ret = "L76"
       THEN /\ binomial_tree' = gs.S
            /\ pc' = "L77"
            /\ UNCHANGED crr
       ELSE /\ crr' = [crr EXCEPT !.S = gs.S]
            /\ pc' = "crr_42"
            /\ UNCHANGED binomial_tree
  /\ UNCHANGED <<inp, gs, ref, option_value, option_tree, steps, exact_value,
                 CRR_values, reads, writes>>

(***************************************************************************)
(* CRR_option_value (lines 31-52).                                         *)
(***************************************************************************)
\* Lines 32-36.  math.sqrt raises ValueError below zero, and the division of
\* line 36 raises ZeroDivisionError when u = d.
CrrInit ==
  /\ pc = "crr_32"
  /\ LET dt == FDiv(crr.T, FInt(crr.M))
         df == FExp(FMul(FNeg(crr.r), dt))
         u == FExp(FMul(crr.sigma, FSqrt(dt)))
         d == FDiv(One, u)
     IN  IF dt.m < 0 \/ FSub(u, d).m = 0
           THEN /\ pc' = "raised"
                /\ UNCHANGED crr
           ELSE /\ crr' = [crr EXCEPT !.dt = dt, !.df = df, !.u = u, !.d = d,
                           !.q = FDiv(FSub(FExp(FMul(crr.r, dt)), d), FSub(u, d))]
                /\ pc' = "crr_39"
  /\ UNCHANGED <<inp, gs, ref, binomial_tree, option_value, option_tree, steps,
                 exact_value, CRR_values, reads, writes>>

\* Line 39.
CrrCallTree ==
  /\ pc = "crr_39"
  /\ CallGetSmatrix1(crr.S0, crr.sigma, crr.T, crr.M, "L39")
  /\ UNCHANGED <<inp, crr, ref, binomial_tree, option_value, option_tree, steps,
                 exact_value, CRR_values, reads, writes>>

\* payoff, wrong: the intrinsic value without the clamp at zero.
payoffUnclamped(option_type, s, K) ==
  IF option_type = "C" THEN FSub(s, K) ELSE FSub(K, s)

\* The payoff of one cell, lines 43 and 45.
payoff(option_type, s, K) ==
  IF option_type = "C" THEN FMax(FSub(s, K), Zero) ELSE FMax(FSub(K, s), Zero)

\* Lines 42-45: np.maximum over the whole matrix S, every cell of it.
CrrPayoff ==
  /\ pc = "crr_42"
  /\ crr' = [crr EXCEPT
             !.V = [cell \in DOMAIN crr.S |-> payoff(crr.option_type, crr.S[cell], crr.K)],
             !.t = crr.M - 1, !.j = 0]
  /\ reads' = reads \cup {<<"S", cell[1], cell[2]>> : cell \in DOMAIN crr.S}
  /\ writes' = [cell \in DOMAIN crr.S |-> 0]
  /\ pc' = IF crr.M - 1 >= 0 THEN "crr_50" ELSE "crr_52"
  /\ UNCHANGED <<inp, gs, ref, binomial_tree, option_value, option_tree, steps,
                 exact_value, CRR_values>>

\* value, wrong: the weights q and 1 - q on the wrong successors.
valueSwapped(V, q, df, j, t) ==
  FMul(FAdd(FMul(FSub(One, q), V[<<j, t + 1>>]), FMul(q, V[<<j + 1, t + 1>>])), df)

\* value, wrong: the expectation is not discounted.
valueUndiscounted(V, q, df, j, t) ==
  FAdd(FMul(q, V[<<j, t + 1>>]), FMul(FSub(One, q), V[<<j + 1, t + 1>>]))

\* The value written at node (j, t), line 50.
value(V, q, df, j, t) ==
  FMul(FAdd(FMul(q, V[<<j, t + 1>>]), FMul(FSub(One, q), V[<<j + 1, t + 1>>])), df)

\* CrrStep, wrong: the result is stored one row too low, at V[j + 1, t].
CrrStepRowBelow ==
  /\ pc = "crr_50"
  /\ crr' = [crr EXCEPT
             !.V = [crr.V EXCEPT ![<<crr.j + 1, crr.t>>] = value(crr.V, crr.q, crr.df, crr.j, crr.t)],
             !.j = IF crr.j < crr.t THEN crr.j + 1 ELSE 0,
             !.t = IF crr.j < crr.t THEN crr.t ELSE crr.t - 1]
  /\ reads' = reads \cup {<<"V", crr.j, crr.t + 1>>, <<"V", crr.j + 1, crr.t + 1>>}
  /\ writes' = [writes EXCEPT ![<<crr.j + 1, crr.t>>] = @ + 1]
  /\ pc' = IF crr.j = crr.t /\ crr.t = 0 THEN "crr_52" ELSE "crr_50"
  /\ UNCHANGED <<inp, gs, ref, binomial_tree, option_value, option_tree, steps,
                 exact_value, CRR_values>>

\* Lines 48-50: one iteration of the inner loop, for (crr.t, crr.j).
CrrStep ==
  /\ pc = "crr_50"
  /\ crr' = [crr EXCEPT
             !.V = [crr.V EXCEPT ![<<crr.j, crr.t>>] = value(crr.V, crr.q, crr.df, crr.j, crr.t)],
             !.j = IF crr.j < crr.t THEN crr.j + 1 ELSE 0,
             !.t = IF crr.j < crr.t THEN crr.t ELSE crr.t - 1]
  /\ reads' = reads \cup {<<"V", crr.j, crr.t + 1>>, <<"V", crr.j + 1, crr.t + 1>>}
  /\ writes' = [writes EXCEPT ![<<crr.j, crr.t>>] = @ + 1]
  /\ pc' = IF crr.j = crr.t /\ crr.t = 0 THEN "crr_52" ELSE "crr_50"
  /\ UNCHANGED <<inp, gs, ref, binomial_tree, option_value, option_tree, steps,
                 exact_value, CRR_values>>

\* Line 52: return (V[0, 0], V) to the caller (line 77 or line 101).
CrrReturn ==
  /\ pc = "crr_52"
  /\ IF crr.ret = "L77"
       THEN /\ option_value' = crr.V[<<0, 0>>]
            /\ option_tree' = crr.V
            /\ pc' = "L80"
            /\ UNCHANGED CRR_values
       ELSE /\ CRR_values' = Append(CRR_values, crr.V[<<0, 0>>])
            /\ pc' = "L101"
            /\ UNCHANGED <<option_value, option_tree>>
  /\ UNCHANGED <<inp, gs, crr, ref, binomial_tree, steps, exact_value, reads, writes>>

Next ==
  \/ Click
  \/ MainCallTree
  \/ MainCallCRR
  \/ Display
  \/ CallBS
  \/ SampleCall
  \/ Plot
  \/ Rerun
  \/ GsInit
  \/ GsCell
  \/ GsReturn
  \/ CrrInit
  \/ CrrCallTree
  \/ CrrPayoff
  \/ CrrStep
  \/ CrrReturn

Spec == Init /\ [][Next]_vars

(***************************************************************************)
(* Properties.                                                             *)
(***************************************************************************)
\* |a - b| <= k units in the last place of the larger of a and b.
Near(a, b, k) ==
  LET big == IF FLt(FAbs(a), FAbs(b)) THEN b ELSE a
  IN  FLe(FAbs(FSub(a, b)), Round(k, big.e, FALSE))

\* |x - n/d| <= tn/td, for decimal literals n/d and tn/td.
About(x, n, d, tn, td) == FLe(FAbs(FSub(x, FDec(n, d))), FDec(tn, td))

\* IEEE ==: a NaN equals nothing.
FEq(x, y) == ~x.nan /\ ~y.nan /\ x = y

Positive(x) == ~x.nan /\ x.m > 0

\* A call of CRR_option_value is running (its own lines, or getSmatrix1 for it).
InCRR == pc \in {"crr_32", "crr_39", "crr_42", "crr_50", "crr_52"}
         \/ (pc \in {"gs_19", "gs_26", "gs_27"} /\ gs.ret = "L39")

\* V holds the terminal payoffs of S in column M and, at every node left of
\* it, the discounted risk-neutral expectation of the node's two successors.
IsValueLattice(V, S, option_type, K, q, df, M) ==
  /\ DOMAIN V = Cells(M)
  /\ \A j \in 0..M :
       V[<<j, M>>] = IF option_type = "C"
                       THEN FMax(FSub(S[<<j, M>>], K), Zero)
                       ELSE FMax(FSub(K, S[<<j, M>>]), Zero)
  /\ \A t \in 0..(M - 1) : \A j \in 0..t :
       V[<<j, t>>] = FMul(df, FAdd(FMul(q, V[<<j, t + 1>>]),
                                   FMul(FSub(One, q), V[<<j + 1, t + 1>>])))

\* C1: when CRR_option_value returns, V satisfies the recursive definition
\* (terminal payoff max(S - K, 0) or max(K - S, 0) in column M, and
\* value(j, t) = df * (q * value(j, t+1) + (1-q) * value(j+1, t+1)) at every
\* node with t < M), and the scalar handed to the caller is V[0, 0].
C1_BackwardInduction ==
  /\ pc = "crr_52" =>
       IsValueLattice(crr.V, crr.S, crr.option_type, crr.K, crr.q, crr.df, crr.M)
  /\ pc = "L80" =>
       /\ IsValueLattice(option_tree, crr.S, crr.option_type, crr.K, crr.q,
                         crr.df, inp.M)
       /\ option_value = option_tree[<<0, 0>>]
  /\ pc = "L101" /\ crr.ret = "L101" =>
       /\ IsValueLattice(crr.V, crr.S, crr.option_type, crr.K, crr.q, crr.df,
                         steps[Len(CRR_values)])
       /\ CRR_values[Len(CRR_values)] = crr.V[<<0, 0>>]

C1_Witness ==
  /\ pc = "L80"
  /\ inp.M = 3
  /\ inp.option_type = "C"
  /\ Positive(option_value)
  /\ option_tree[<<0, 0>>] # option_tree[<<0, 1>>]

Discounted == FMul(inp.K, FExp(FMul(FNeg(inp.r), inp.T)))

BsReturned == pc = "L101" /\ Len(CRR_values) = 0

\* C3 (as claimed): for sigma > 0 and T > 0 (and S0 > 0, K > 0, as the
\* parameters of the model are) the pair returned by bs satisfies
\* call - put == S0 - K * e^(-rT) exactly.
C3_ParityExact ==
  BsReturned /\ Positive(inp.sigma) /\ Positive(inp.T)
    /\ Positive(inp.S0) /\ Positive(inp.K) =>
    FEq(FSub(ref.c, ref.p), FSub(inp.S0, Discounted))

\* C3 (amended): for S0 > 0, K > 0, sigma > 0 and T > 0, put is computed from
\* the call value as (call + K * e^(-rT)) - S0, and call - put equals
\* S0 - K * e^(-rT) up to rounding: within 4 units in the last place of the
\* larger of S0 and K * e^(-rT).
C3_ParityRounded ==
  BsReturned /\ Positive(inp.sigma) /\ Positive(inp.T)
    /\ Positive(inp.S0) /\ Positive(inp.K) =>
    /\ FEq(ref.p, FSub(FAdd(ref.c, Discounted), inp.S0))
    /\ LET big == IF FLt(inp.S0, Discounted) THEN Discounted ELSE inp.S0
       IN  FLe(FAbs(FSub(FSub(ref.c, ref.p), FSub(inp.S0, Discounted))),
               Round(4, big.e, FALSE))

C3_Witness ==
  /\ BsReturned
  /\ Positive(inp.sigma) /\ Positive(inp.T) /\ Positive(inp.S0) /\ Positive(inp.K)
  /\ Positive(ref.c) /\ Positive(ref.p)
  /\ FSub(ref.c, ref.p) # FSub(inp.S0, Discounted)

\* C4 (as claimed): the sampled step counts are 10, 20, 30, ... and the
\* largest of them is >= max(10, M) + 10.
C4_ReachesMaxPlusTen ==
  steps # <<>> => steps[Len(steps)] >= max(10, inp.M) + 10

\* C4 (amended): the sampler evaluates CRR_option_value at the step counts
\* 10, 20, 30, ... in increasing order without gaps, once each, and the
\* largest sampled step count is the least multiple of 10 that is
\* >= max(10, M): it is >= max(10, M) and < max(10, M) + 10.
C4_SampledSteps ==
  /\ steps # <<>> =>
       /\ \A i \in 1..Len(steps) : steps[i] = 10 * i
       /\ steps[Len(steps)] >= max(10, inp.M)
       /\ steps[Len(steps)] < max(10, inp.M) + 10
  /\ InCRR /\ crr.ret = "L101" =>
       /\ Len(CRR_values) < Len(steps)
       /\ crr.M = steps[Len(CRR_values) + 1]
  /\ pc = "done" => Len(CRR_values) = Len(steps)

C4_Witness ==
  /\ pc = "done"
  /\ inp.M = 20
  /\ steps = <<10, 20>>
  /\ Len(CRR_values) = 2

\* The boundary scenario: the defaults, one step, a put; the main call of
\* CRR_option_value is about to return.
Scenario ==
  /\ pc = "crr_52"
  /\ crr.ret = "L77"
  /\ crr.M = 1
  /\ crr.option_type = "P"
  /\ crr.S0 = Default.S0 /\ crr.K = Default.K /\ crr.T = Default.T
  /\ crr.r = Default.r /\ crr.sigma = Default.sigma

\* What the scenario's two statements agree on: u ~ 1.2214, d ~ 0.8187, put
\* payoff 0 at the up node and ~ 10.527 at the down node.
ScenarioTree ==
  /\ About(crr.u, 12214, 10000, 1, 1000)
  /\ About(crr.d, 8187, 10000, 1, 1000)
  /\ crr.V[<<0, 1>>] = Zero
  /\ About(crr.V[<<1, 1>>], 10527, 1000, 1, 100)

\* C5 (as claimed): in the boundary scenario q ~ 0.4502 and the root put
\* value is ~ 5.443.
C5_BoundaryAsClaimed ==
  Scenario =>
    /\ ScenarioTree
    /\ About(crr.q, 4502, 10000, 2, 1000)
    /\ About(crr.V[<<0, 0>>], 5443, 1000, 2, 100)

\* C5 (amended): in the boundary scenario u ~ 1.2214, d ~ 0.8187,
\* q = (e^0.06 - d) / (u - d) ~ 0.6037, the put payoff is 0 at the up node
\* and ~ 10.527 at the down node, and the root put value is ~ 3.928.
C5_Boundary ==
  Scenario =>
    /\ ScenarioTree
    /\ crr.q = FDiv(FSub(FExp(FDec(6, 100)), crr.d), FSub(crr.u, crr.d))
    /\ About(crr.q, 6037, 10000, 2, 1000)
    /\ About(crr.V[<<0, 0>>], 3928, 1000, 2, 100)

C5_Witness == Scenario /\ Positive(crr.V[<<0, 0>>]) /\ inp.M = 1

\* C6: getSmatrix1, CRR_option_value and bs are only ever called with M >= 1
\* and S0 > 0, K > 0, T > 0, sigma > 0.
C6_OnlyValidParameters ==
  /\ pc = "gs_19" =>
       gs.M >= 1 /\ Positive(gs.S0) /\ Positive(gs.T) /\ Positive(gs.sigma)
  /\ pc = "crr_32" =>
       /\ crr.M >= 1
       /\ Positive(crr.S0) /\ Positive(crr.K) /\ Positive(crr.T)
       /\ Positive(crr.sigma)
  /\ BsReturned =>
       /\ Positive(inp.S0) /\ Positive(inp.K) /\ Positive(inp.T)
       /\ Positive(inp.sigma)

\* C7: a call of CRR_option_value by the sampler with the parameters of the
\* main call (m = M) returns the main call's root value and value lattice,
\* whatever calls ran in between.
C7_Repeatable ==
  /\ pc = "crr_52" /\ crr.ret = "L101" /\ crr.M = inp.M =>
       /\ crr.V = option_tree
       /\ crr.V[<<0, 0>>] = option_value
  /\ pc = "L101" /\ crr.ret = "L101" /\ crr.M = inp.M =>
       CRR_values[Len(CRR_values)] = option_value

C7_Witness ==
  /\ pc = "crr_52"
  /\ crr.ret = "L101"
  /\ crr.M = inp.M
  /\ inp.M = 20
  /\ Len(CRR_values) = 1
  /\ Positive(option_value)

\* C8: during CRR_option_value every read of the price lattice and of the
\* value lattice is at a cell (j, t) with j <= t.
C8_ReadsOnlyNodes == \A rd \in reads : rd[2] <= rd[3]

\* C9: backward induction writes exactly the cells (j, t) with
\* 0 <= j <= t <= M-1, each once; the terminal column and the cells with
\* j > t keep their value of the payoff initialisation; the price lattice is
\* not modified.
C9_WritesNodesOnce ==
  pc \in {"crr_50", "crr_52"} =>
    /\ crr.S = gs.S
    /\ \A cell \in Cells(crr.M) :
         /\ writes[cell] <= 1
         /\ cell[1] > cell[2] \/ cell[2] = crr.M =>
              /\ writes[cell] = 0
              /\ crr.V[cell] = IF crr.option_type = "C"
                                 THEN FMax(FSub(crr.S[cell], crr.K), Zero)
                                 ELSE FMax(FSub(crr.K, crr.S[cell]), Zero)
         /\ pc = "crr_52" /\ cell[1] <= cell[2] /\ cell[2] < crr.M =>
              writes[cell] = 1

C9_Witness ==
  /\ pc = "crr_52"
  /\ crr.M = 3
  /\ crr.option_type = "P"
  /\ writes[<<2, 2>>] = 1
  /\ writes[<<3, 2>>] = 0
  /\ Positive(crr.V[<<3, 2>>])

QInUnitInterval == FLe(Zero, crr.q) /\ FLe(crr.q, One) /\ Positive(crr.df)

\* C10: if 0 <= q <= 1 and df > 0, every cell of the value lattice is >= 0
\* after the payoff initialisation and after every step of backward
\* induction, and so is the returned option value.
C10_NonNegative ==
  QInUnitInterval =>
    /\ pc \in {"crr_50", "crr_52"} =>
         \A cell \in Cells(crr.M) : FLe(Zero, crr.V[cell])
    /\ pc = "L80" => FLe(Zero, option_value)
    /\ pc = "L101" /\ crr.ret = "L101" =>
         FLe(Zero, CRR_values[Len(CRR_values)])

C10_Witness ==
  /\ pc = "crr_50"
  /\ QInUnitInterval
  /\ crr.M = 3
  /\ crr.t = 0
  /\ Positive(crr.V[<<0, 1>>])
  /\ crr.V[<<2, 2>>] = Zero
=============================================================================
